---- MODULE Spec2Model ----
(***************************************************************************)
(* Verification model of the repository's three pieces of logic:           *)
(*   hw/Assignment_8_color_names.py  nearest web-color name lookup         *)
(*   final_project/data_setup.py     flatten_data_folder                   *)
(*   final_project/preprocessing.py  data_split_and_augment                *)
(* Each piece has its own specification (Spec, SpecFlatten, SpecSplit)     *)
(* over the shared variable tuple; the variables of the other pieces stay  *)
(* at their initial values.                                                *)
(***************************************************************************)
EXTENDS Integers, Sequences, FiniteSets, TLC

VARIABLES
    palette,    \* the module global COLOR_NAME_DICT, in dict iteration order
    pc,         \* per caller: "idle", "batch" (inside the loop of
                \* get_closest_name_for_rgb) or "returned"
    call,       \* per caller: the call in progress or last made
    names,      \* per caller: the local list `names` of get_closest_name_for_rgb
    result,     \* per caller: the outcome of the last call
    root,       \* flatten_data_folder: the entries of dataset_folder_path
    root0,      \* the entries of dataset_folder_path when the call was made
    fpc,        \* flatten_data_folder: position in the function
    outer,      \* names of os.listdir(dataset_folder_path) not yet visited
    emotion_folder,  \* the subfolder the outer loop is at
    inner,      \* names of os.listdir(emotion_folder_path) not yet visited
    spc,        \* data_split_and_augment: position in the function
    args,       \* its arguments images, labels, splits as passed
    images, labels,              \* the locals of these names
    X_train, y_train, X_val, y_val, X_test, y_test,
    dpc,        \* download_unzip_kaggle_data: position in the function
    cwd,        \* the process working directory, as the path from /
    cwd0,       \* the working directory when the call was made
    env         \* what the call finds: the entry 'data', the tools, the zip

colorVars == <<palette, pc, call, names, result>>

flattenVars == <<root, root0, fpc, outer, emotion_folder, inner>>

downloadVars == <<dpc, cwd, cwd0, env>>

splitVars == <<spc, args, images, labels, X_train, y_train, X_val, y_val, X_test, y_test>>

vars == <<palette, pc, call, names, result,
          root, root0, fpc, outer, emotion_folder, inner,
          spc, args, images, labels, X_train, y_train, X_val, y_val, X_test, y_test,
          dpc, cwd, cwd0, env>>

(***************************************************************************)
(* Bounds of the model.                                                    *)
(***************************************************************************)
MaxPalette == 2     \* longest dict display of the generic palettes
MaxBatch == 2       \* longest rgb_value_array handed to the batch lookup
MaxFiles == 2       \* most entries of one subfolder of the dataset folder
MaxN == 4           \* most images handed to data_split_and_augment
SplitDen == 4       \* the splits are multiples of 1/SplitDen

Threads == {"t1", "t2"}

(***************************************************************************)
(* Values.  A query component is an int, or something that is no number    *)
(* (a str, None).  A palette entry is a name with a list of three ints.    *)
(***************************************************************************)
I(n) == [t |-> "int", v |-> n]
NaN_str == [t |-> "str", v |-> 0]
None == [t |-> "None", v |-> 0]

E(n, r, g, b) == [name |-> n, rgb |-> <<r, g, b>>]

(***************************************************************************)
(* A dict display {k1: v1, k2: v2, ...}: keys are inserted left to right;  *)
(* a key that is already present keeps its position and takes the new      *)
(* value.  The result is the dict in iteration (insertion) order.          *)
(***************************************************************************)
\* variant: every item of the display is appended, a repeated key included
dict_setitem_append(d, e) == Append(d, e)

dict_setitem(d, e) ==
    IF \E i \in 1..Len(d) : d[i].name = e.name
    THEN LET j == CHOOSE i \in 1..Len(d) : d[i].name = e.name
         IN  SubSeq(d, 1, j - 1) \o <<e>> \o SubSeq(d, j + 1, Len(d))
    ELSE Append(d, e)

\* the items lo..hi of the display inserted, in order, into d.  The range
\* is halved, and the left half is evaluated (by the test on it) before the
\* right half starts, so that a long display does not nest the evaluation
\* deeply; both branches of the test insert the right half into the left.
RECURSIVE dict_display_from(_, _, _, _)
dict_display_from(pairs, lo, hi, d) ==
    IF lo > hi THEN d
    ELSE IF lo = hi THEN dict_setitem(d, pairs[lo])
    ELSE LET mid == (lo + hi) \div 2
             left == dict_display_from(pairs, lo, mid, d)
         IN  IF Len(left) = 0
             THEN dict_display_from(pairs, mid + 1, hi, <<>>)
             ELSE dict_display_from(pairs, mid + 1, hi, left)

dict_display(pairs) == dict_display_from(pairs, 1, Len(pairs), <<>>)

COLOR_NAME_ITEMS == <<
    E("MediumVioletRed", 199, 21, 133), E("DeepPink", 255, 20, 147), E("PaleVioletRed", 219, 112, 147),
    E("HotPink", 255, 105, 180), E("LightPink", 255, 182, 193), E("Pink", 255, 192, 203),
    E("DarkRed", 139, 0, 0), E("Red", 255, 0, 0), E("Firebrick", 178, 34, 34),
    E("Crimson", 220, 20, 60), E("IndianRed", 205, 92, 92), E("LightCoral", 240, 128, 128),
    E("Salmon", 250, 128, 114), E("DarkSalmon", 233, 150, 122), E("LightSalmon", 255, 160, 122),
    E("OrangeRed", 255, 69, 0), E("Tomato", 255, 99, 71), E("DarkOrange", 255, 140, 0),
    E("Coral", 255, 127, 80), E("Orange", 255, 165, 0), E("DarkKhaki", 189, 183, 107),
    E("Gold", 255, 215, 0), E("Khaki", 240, 230, 140), E("PeachPuff", 255, 218, 185),
    E("Yellow", 255, 255, 0), E("PaleGoldenrod", 238, 232, 170), E("Moccasin", 255, 228, 181),
    E("PapayaWhip", 255, 239, 213), E("LightGoldenrodYellow", 250, 250, 210), E("LemonChiffon", 255, 250, 205),
    E("LightYellow", 255, 255, 224), E("Maroon", 128, 0, 0), E("Brown", 165, 42, 42),
    E("SaddleBrown", 139, 69, 19), E("Sienna", 160, 82, 45), E("Chocolate", 210, 105, 30),
    E("DarkGoldenrod", 184, 134, 11), E("Peru", 205, 133, 63), E("RosyBrown", 188, 143, 143),
    E("Goldenrod", 218, 165, 32), E("SandyBrown", 244, 164, 96), E("Tan", 210, 180, 140),
    E("Burlywood", 222, 184, 135), E("Wheat", 245, 222, 179), E("NavajoWhite", 255, 222, 173),
    E("Bisque", 255, 228, 196), E("BlanchedAlmond", 255, 235, 205), E("Cornsilk", 255, 248, 220),
    E("Indigo", 75, 0, 130), E("Purple", 128, 0, 128), E("DarkMagenta", 139, 0, 139),
    E("DarkViolet", 148, 0, 211), E("DarkSlateBlue", 72, 61, 139), E("BlueViolet", 138, 43, 226),
    E("DarkOrchid", 153, 50, 204), E("Fuchsia", 255, 0, 255), E("Magenta", 255, 0, 255),
    E("SlateBlue", 106, 90, 205), E("MediumSlateBlue", 123, 104, 238), E("MediumOrchid", 186, 85, 211),
    E("MediumPurple", 147, 112, 219), E("Orchid", 218, 112, 214), E("Violet", 238, 130, 238),
    E("Plum", 221, 160, 221), E("Thistle", 216, 191, 216), E("Lavender", 230, 230, 250),
    E("MidnightBlue", 25, 25, 112), E("Navy", 0, 0, 128), E("DarkBlue", 0, 0, 139),
    E("MediumBlue", 0, 0, 205), E("Blue", 0, 0, 255), E("RoyalBlue", 65, 105, 225),
    E("SteelBlue", 70, 130, 180), E("DodgerBlue", 30, 144, 255), E("DeepSkyBlue", 0, 191, 255),
    E("CornflowerBlue", 100, 149, 237), E("SkyBlue", 135, 206, 235), E("LightSkyBlue", 135, 206, 250),
    E("LightSteelBlue", 176, 196, 222), E("LightBlue", 173, 216, 230), E("PowderBlue", 176, 224, 230),
    E("Teal", 0, 128, 128), E("DarkCyan", 0, 139, 139), E("LightSeaGreen", 32, 178, 170),
    E("CadetBlue", 95, 158, 160), E("DarkTurquoise", 0, 206, 209), E("MediumTurquoise", 72, 209, 204),
    E("Turquoise", 64, 224, 208), E("Aqua", 0, 255, 255), E("Cyan", 0, 255, 255),
    E("Aquamarine", 127, 255, 212), E("PaleTurquoise", 175, 238, 238), E("LightCyan", 224, 255, 255),
    E("DarkGreen", 0, 100, 0), E("Green", 0, 128, 0), E("DarkOliveGreen", 85, 107, 47),
    E("ForestGreen", 34, 139, 34), E("SeaGreen", 46, 139, 87), E("Olive", 128, 128, 0),
    E("OliveDrab", 107, 142, 35), E("MediumSeaGreen", 60, 179, 113), E("LimeGreen", 50, 205, 50),
    E("Lime", 0, 255, 0), E("SpringGreen", 0, 255, 127), E("MediumSpringGreen", 0, 250, 154),
    E("DarkSeaGreen", 143, 188, 143), E("MediumAquamarine", 102, 205, 170), E("YellowGreen", 154, 205, 50),
    E("LawnGreen", 124, 252, 0), E("Chartreuse", 127, 255, 0), E("LightGreen", 144, 238, 144),
    E("GreenYellow", 173, 255, 47), E("PaleGreen", 152, 251, 152), E("MistyRose", 255, 228, 225),
    E("AntiqueWhite", 250, 235, 215), E("Linen", 250, 240, 230), E("Beige", 245, 245, 220),
    E("WhiteSmoke", 245, 245, 245), E("LavenderBlush", 255, 240, 245), E("OldLace", 253, 245, 230),
    E("AliceBlue", 240, 248, 255), E("Seashell", 255, 245, 238), E("GhostWhite", 248, 248, 255),
    E("Honeydew", 240, 255, 240), E("FloralWhite", 255, 250, 240), E("Azure", 240, 255, 255),
    E("MintCream", 245, 255, 250), E("Snow", 255, 250, 250), E("Ivory", 255, 255, 240),
    E("White", 255, 255, 255), E("Black", 0, 0, 0), E("DarkSlateGray", 47, 79, 79),
    E("DimGray", 105, 105, 105), E("SlateGray", 112, 128, 144), E("Gray", 128, 128, 128),
    E("LightSlateGray", 119, 136, 153), E("DarkGray", 169, 169, 169), E("Silver", 192, 192, 192),
    E("LightGray", 211, 211, 211), E("Gainsboro", 220, 220, 220)
>>

COLOR_NAME_DICT == dict_display(COLOR_NAME_ITEMS)

(***************************************************************************)
(* math.sqrt.  The radicand is an exact Python int.  A double that is the  *)
(* square root of an integer n is represented by n itself: math.sqrt is    *)
(* strictly increasing on the integers below 2^52 (consecutive roots are   *)
(* more than one ulp apart), so `<` on the roots is `<` on the radicands.  *)
(* The literal -1 of `closest_dist = -1` is represented by -1.             *)
(***************************************************************************)
math_sqrt(n) == n

\* variants of the comparison of line 162: `>` for `<`, and `<=` for `<`
adopts_gt(closest_dist, dist) == closest_dist < 0 \/ dist > closest_dist

adopts_le(closest_dist, dist) == closest_dist < 0 \/ dist <= closest_dist

\* line 162: closest_dist < 0 or dist < closest_dist
adopts(closest_dist, dist) == closest_dist < 0 \/ dist < closest_dist

\* variant: a query that does not have exactly three components is refused
\* with IndexError before its components are read
RECURSIVE component_error_strict(_, _)
component_error_strict(rgb_value, k) ==
    IF Len(rgb_value) # 3 THEN "IndexError"
    ELSE IF k > 3 THEN "ok"
    ELSE IF rgb_value[k].t # "int" THEN "TypeError"
    ELSE component_error_strict(rgb_value, k + 1)

\* rgb_value[0], rgb_value[1], rgb_value[2] are read in this order, each
\* followed by the subtraction from the reference component: the first read
\* past the end raises IndexError, the first operand that is no number
\* raises TypeError.
RECURSIVE component_error(_, _)
component_error(rgb_value, k) ==
    IF k > 3 THEN "ok"
    ELSE IF Len(rgb_value) < k THEN "IndexError"
    ELSE IF rgb_value[k].t # "int" THEN "TypeError"
    ELSE component_error(rgb_value, k + 1)

\* variant: the blue term is left out of the sum
entry_dist_no_blue(color_rgb_value, rgb_value) ==
    LET red_dist == (color_rgb_value[1] - rgb_value[1].v) * (color_rgb_value[1] - rgb_value[1].v)
        green_dist == (color_rgb_value[2] - rgb_value[2].v) * (color_rgb_value[2] - rgb_value[2].v)
    IN  math_sqrt(red_dist + green_dist)

\* lines 157-160 for one palette entry, the query's first three components
\* being ints
entry_dist(color_rgb_value, rgb_value) ==
    LET red_dist == (color_rgb_value[1] - rgb_value[1].v) * (color_rgb_value[1] - rgb_value[1].v)
        green_dist == (color_rgb_value[2] - rgb_value[2].v) * (color_rgb_value[2] - rgb_value[2].v)
        blue_dist == (color_rgb_value[3] - rgb_value[3].v) * (color_rgb_value[3] - rgb_value[3].v)
    IN  math_sqrt(red_dist + green_dist + blue_dist)

\* the locals before the loop, lines 152-153; raised is "" until an
\* exception leaves the function, dists counts the entries whose dist has
\* been computed
scan_start ==
    [closest_color |-> "No Color Found", closest_dist |-> -1, raised |-> "", dists |-> 0]

\* one iteration of the for loop, lines 156-164, for the entry e
scan_entry(e, rgb_value, st) ==
    LET err == component_error(rgb_value, 1)
        dist == entry_dist(e.rgb, rgb_value)
    IN  IF st.raised # "" THEN st
        ELSE IF err # "ok" THEN [st EXCEPT !.raised = err]
        ELSE IF adopts(st.closest_dist, dist)
        THEN [st EXCEPT !.closest_color = e.name, !.closest_dist = dist,
                        !.dists = st.dists + 1]
        ELSE [st EXCEPT !.dists = st.dists + 1]

\* the iterations for the keys lo..hi, in dict order, from the locals st
\* (the range is halved so that a long palette does not nest the
\* evaluation deeply; once an exception is raised no iteration follows)
RECURSIVE scan(_, _, _, _, _)
scan(pal, rgb_value, lo, hi, st) ==
    IF lo > hi THEN st
    ELSE IF lo = hi THEN scan_entry(pal[lo], rgb_value, st)
    ELSE LET mid == (lo + hi) \div 2
             left == scan(pal, rgb_value, lo, mid, st)
         IN  IF left.raised # "" THEN left
             ELSE scan(pal, rgb_value, mid + 1, hi, left)

\* variant: an empty palette is refused with an exception
get_closest_name_or_raise(pal, rgb_value) ==
    LET st == scan(pal, rgb_value, 1, Len(pal), scan_start)
    IN  IF pal = <<>>
        THEN [kind |-> "EmptyPaletteError", name |-> "", dists |-> 0]
        ELSE IF st.raised # ""
        THEN [kind |-> st.raised, name |-> "", dists |-> st.dists]
        ELSE [kind |-> "return", name |-> st.closest_color, dists |-> st.dists]

\* the outcome of a call: the returned name, or the exception raised
get_closest_name_for_rgb_value(pal, rgb_value) ==
    LET st == scan(pal, rgb_value, 1, Len(pal), scan_start)
    IN  IF st.raised # ""
        THEN [kind |-> st.raised, name |-> "", dists |-> st.dists]
        ELSE [kind |-> "return", name |-> st.closest_color, dists |-> st.dists]

(***************************************************************************)
(* Inputs.                                                                 *)
(***************************************************************************)
T3(r, g, b) == <<I(r), I(g), I(b)>>

TripleQueries ==
    { T3(0, 0, 0), T3(255, 255, 255), T3(255, 0, 0), T3(1, 1, 1),
      T3(255, 0, 255), T3(0, 255, 255), T3(1, 0, 0),
      T3(-40, 300, 128), T3(256, 256, 256) }

MalformedQueries ==
    { <<>>, <<I(1), I(0)>>, <<I(1), I(0), I(0), I(7)>>,
      <<I(1), NaN_str, I(0)>>, <<I(1), I(0), None>>,
      <<I(255), I(0), I(255), NaN_str>> }

Queries == TripleQueries \cup MalformedQueries

BatchQueries == { T3(1, 0, 0), T3(255, 0, 255), <<I(1), I(0)>> }

RECURSIVE SeqsUpTo(_, _)
SeqsUpTo(S, n) ==
    IF n = 0 THEN { <<>> }
    ELSE LET shorter == SeqsUpTo(S, n - 1)
         IN  shorter \cup { Append(s, x) : s \in { q \in shorter : Len(q) = n - 1 }, x \in S }

\* the arguments of the batch lookup
Batches == SeqsUpTo(BatchQueries, MaxBatch)

PalNames == {"A", "B"}
PalColors == { <<0, 0, 0>>, <<2, 0, 0>> }
PalItems == { [name |-> n, rgb |-> c] : n \in PalNames, c \in PalColors }

\* the palettes a process can hold: the shipped one, and every dict built
\* from a short display
Palettes == { COLOR_NAME_DICT } \cup { dict_display(s) : s \in SeqsUpTo(PalItems, MaxPalette) }


(***************************************************************************)
(* Callers.  Each caller makes one call after another; two callers run     *)
(* interleaved.  A single lookup is one step; the batch lookup takes one   *)
(* step per element of its argument.                                       *)
(***************************************************************************)
NoCall == [fn |-> "none", q |-> <<>>, xs |-> <<>>]
NoResult == [kind |-> "none", name |-> "", names |-> <<>>, dists |-> 0]

ColorIdle ==
    /\ pc = [t \in Threads |-> "idle"]
    /\ call = [t \in Threads |-> NoCall]
    /\ names = [t \in Threads |-> <<>>]
    /\ result = [t \in Threads |-> NoResult]

\* download_unzip_kaggle_data has not been called
DownloadIdle ==
    /\ dpc = "idle"
    /\ cwd = <<>>
    /\ cwd0 = <<>>
    /\ env = [data |-> "none", writable |-> TRUE, kaggle |-> "ok", zip |-> TRUE, unzip |-> "ok"]

\* data_split_and_augment has not been called
SplitIdle ==
    /\ spc = "idle"
    /\ args = [images |-> <<>>, labels |-> <<>>, splits |-> <<0, 0, 0>>]
    /\ images = <<>>
    /\ labels = <<>>
    /\ X_train = <<>>
    /\ y_train = <<>>
    /\ X_val = <<>>
    /\ y_val = <<>>
    /\ X_test = <<>>
    /\ y_test = <<>>

(***************************************************************************)
(* flatten_data_folder.  The dataset folder is a map from entry names to   *)
(* entries.  A file is known by where it was when the call was made: the   *)
(* subfolder ("" for the dataset folder itself) and its name there.  A     *)
(* subfolder maps names to "file", "dir" (a nested directory) or "none".   *)
(***************************************************************************)
Names == {"Angry", "Happy", "1.jpg"}

NoEntries == [n \in Names |-> "none"]
Absent == [kind |-> "none", origin |-> <<"", "">>, entries |-> NoEntries]
File(d, n) == [kind |-> "file", origin |-> <<d, n>>, entries |-> NoEntries]
Dir(es) == [kind |-> "dir", origin |-> <<"", "">>, entries |-> es]

\* what a subfolder can hold
FolderContents ==
    { es \in [Names -> {"none", "file", "dir"}] :
        Cardinality({ n \in Names : es[n] # "none" }) <= MaxFiles }

\* what the dataset folder can hold under the name n
RootEntries(n) == {Absent, File("", n)} \cup { Dir(es) : es \in FolderContents }

\* the dataset folders a call can find
DatasetFolders ==
    { r \in [Names -> UNION { RootEntries(n) : n \in Names }] :
        \A n \in Names : r[n] \in RootEntries(n) }

os_listdir(entries) == { n \in Names : entries[n].kind # "none" }

FlattenIdle ==
    /\ root = [n \in Names |-> Absent]
    /\ root0 = [n \in Names |-> Absent]
    /\ fpc = "idle"
    /\ outer = {}
    /\ emotion_folder = ""
    /\ inner = {}

InitFlatten ==
    /\ palette = <<>>
    /\ ColorIdle
    /\ root \in DatasetFolders
    /\ root0 = root
    /\ fpc = "call"
    /\ outer = {}
    /\ emotion_folder = ""
    /\ inner = {}
    /\ SplitIdle
    /\ DownloadIdle

\* lines 47-51: flattened_folder_path is dataset_folder_path itself, which
\* exists; os.listdir lists it once, in no particular order
FlattenListRoot ==
    /\ fpc = "call"
    /\ outer' = os_listdir(root)
    /\ fpc' = "outer"
    /\ UNCHANGED <<root, root0, emotion_folder, inner>>
    /\ UNCHANGED colorVars
    /\ UNCHANGED splitVars
    /\ UNCHANGED downloadVars

\* lines 51-59: the next name of the listing; a name that is no directory is
\* skipped, a directory is listed
FlattenVisit(name) ==
    /\ fpc = "outer"
    /\ name \in outer
    /\ outer' = outer \ {name}
    /\ IF root[name].kind # "dir"
       THEN UNCHANGED <<fpc, emotion_folder, inner>>
       ELSE /\ emotion_folder' = name
            /\ inner' = { n \in Names : root[name].entries[n] # "none" }
            /\ fpc' = "inner"
    /\ UNCHANGED <<root, root0>>
    /\ UNCHANGED colorVars
    /\ UNCHANGED splitVars
    /\ UNCHANGED downloadVars

\* lines 59-68: the next name of the subfolder's listing; an existing
\* destination is skipped, shutil.copy of a directory raises
\* (IsADirectoryError), a file is copied to the dataset folder
FlattenCopy(image_file) ==
    /\ fpc = "inner"
    /\ image_file \in inner
    /\ inner' = inner \ {image_file}
    /\ IF root[image_file].kind # "none"
       THEN UNCHANGED <<root, fpc>>
       ELSE IF root[emotion_folder].entries[image_file] = "dir"
       THEN /\ fpc' = "raised"
            /\ UNCHANGED root
       ELSE /\ root' = [root EXCEPT ![image_file] = File(emotion_folder, image_file)]
            /\ UNCHANGED fpc
    /\ UNCHANGED <<root0, outer, emotion_folder>>
    /\ UNCHANGED colorVars
    /\ UNCHANGED splitVars
    /\ UNCHANGED downloadVars

\* lines 71-73: the subfolder is removed with all it holds
FlattenRemove ==
    /\ fpc = "inner"
    /\ inner = {}
    /\ root' = IF root[emotion_folder].kind = "dir"
               THEN [root EXCEPT ![emotion_folder] = Absent]
               ELSE root
    /\ fpc' = "outer"
    /\ UNCHANGED <<root0, outer, emotion_folder, inner>>
    /\ UNCHANGED colorVars
    /\ UNCHANGED splitVars
    /\ UNCHANGED downloadVars

\* line 74
FlattenReturn ==
    /\ fpc = "outer"
    /\ outer = {}
    /\ fpc' = "done"
    /\ UNCHANGED <<root, root0, outer, emotion_folder, inner>>
    /\ UNCHANGED colorVars
    /\ UNCHANGED splitVars
    /\ UNCHANGED downloadVars

NextFlatten ==
    \/ FlattenListRoot
    \/ \E name \in Names : FlattenVisit(name)
    \/ \E image_file \in Names : FlattenCopy(image_file)
    \/ FlattenRemove
    \/ FlattenReturn

SpecFlatten == InitFlatten /\ [][NextFlatten]_vars

(***************************************************************************)
(* data_split_and_augment.  An image is known by its index in the input    *)
(* array, with whether it has been flipped and rescaled.  The splits are   *)
(* <<a, b, c>> for a/SplitDen, b/SplitDen, c/SplitDen and sum to 1; the    *)
(* train share is at most one half, which keeps the doubled training set   *)
(* short enough to enumerate its shuffles.                                 *)
(***************************************************************************)
Labels == {0, 1}

Image(i) == [src |-> i, flipped |-> FALSE, scaled |-> FALSE]

Splits ==
    { <<ab[1], ab[2], SplitDen - ab[1] - ab[2]>> :
        ab \in { x \in (0..(SplitDen \div 2)) \X (0..SplitDen) : x[1] + x[2] <= SplitDen } }

SplitArgs ==
    UNION { { [images |-> [i \in 1..n |-> Image(i)], labels |-> l, splits |-> sp] :
                l \in [1..n -> Labels], sp \in Splits } : n \in 1..MaxN }

\* the orderings of the set S, as sequences
RECURSIVE Permutations_of(_)
Permutations_of(S) ==
    IF S = {} THEN { <<>> }
    ELSE UNION { { <<x>> \o p : p \in Permutations_of(S \ {x}) } : x \in S }

\* a[idx] and tf.gather(a, idx): the elements of a at the indices idx
take(a, idx) == [i \in 1..Len(idx) |-> a[idx[i]]]

\* int(x * n) for the split x = num/SplitDen: the product is not negative,
\* so int() is the floor
int_times(num, n) == (num * n) \div SplitDen

\* ary[lo:hi] for 0 <= lo, with numpy's clipping of the bounds
slice(ary, lo, hi) ==
    LET h == IF hi > Len(ary) THEN Len(ary) ELSE hi
    IN  IF lo >= h THEN <<>> ELSE SubSeq(ary, lo + 1, h)

\* np.split(ary, [p, q]): ary[:p], ary[p:q], ary[q:]
np_split(ary, p, q) == <<slice(ary, 0, p), slice(ary, p, q), slice(ary, q, Len(ary))>>

InitSplit ==
    /\ palette = <<>>
    /\ ColorIdle
    /\ FlattenIdle
    /\ spc = "call"
    /\ args \in SplitArgs
    /\ images = args.images
    /\ labels = args.labels
    /\ X_train = <<>>
    /\ y_train = <<>>
    /\ X_val = <<>>
    /\ y_val = <<>>
    /\ X_test = <<>>
    /\ y_test = <<>>
    /\ DownloadIdle

\* lines 124-125: one permutation idx reorders images and labels
SplitShuffle ==
    /\ spc = "call"
    /\ \E idx \in Permutations_of(1..Len(images)) :
        /\ images' = take(images, idx)
        /\ labels' = take(labels, idx)
    /\ spc' = "shuffled"
    /\ UNCHANGED <<args, X_train, y_train, X_val, y_val, X_test, y_test>>
    /\ UNCHANGED colorVars
    /\ UNCHANGED flattenVars
    /\ UNCHANGED downloadVars

\* lines 128-130
SplitSplit ==
    /\ spc = "shuffled"
    /\ LET p == int_times(args.splits[1], Len(images))
           q == int_times(args.splits[1] + args.splits[2], Len(images))
       IN  /\ X_train' = np_split(images, p, q)[1]
           /\ X_val' = np_split(images, p, q)[2]
           /\ X_test' = np_split(images, p, q)[3]
           /\ y_train' = np_split(labels, p, q)[1]
           /\ y_val' = np_split(labels, p, q)[2]
           /\ y_test' = np_split(labels, p, q)[3]
    /\ spc' = "split"
    /\ UNCHANGED <<args, images, labels>>
    /\ UNCHANGED colorVars
    /\ UNCHANGED flattenVars
    /\ UNCHANGED downloadVars

\* lines 133-140: tf.image.random_flip_left_right flips each image of the
\* batch or leaves it; the flipped batch is put after the training images
\* and the training labels after themselves
SplitAugment ==
    /\ spc = "split"
    /\ \E flip \in [1..Len(X_train) -> BOOLEAN] :
        LET X_train_augm == [i \in 1..Len(X_train) |->
                                [X_train[i] EXCEPT !.flipped = flip[i]]]
        IN  X_train' = X_train \o X_train_augm
    /\ y_train' = y_train \o y_train
    /\ spc' = "augmented"
    /\ UNCHANGED <<args, images, labels, X_val, y_val, X_test, y_test>>
    /\ UNCHANGED colorVars
    /\ UNCHANGED flattenVars
    /\ UNCHANGED downloadVars

\* variant: the images are gathered by the shuffle, the labels are left in
\* their order
SplitShuffleTrain_images_only ==
    /\ spc = "augmented"
    /\ \E shuffle \in Permutations_of(1..Len(X_train)) :
        X_train' = take(X_train, shuffle)
    /\ spc' = "gathered"
    /\ UNCHANGED <<args, images, labels, y_train, X_val, y_val, X_test, y_test>>
    /\ UNCHANGED colorVars
    /\ UNCHANGED flattenVars
    /\ UNCHANGED downloadVars

\* lines 143-145: one shuffle of the indices gathers X_train and y_train
SplitShuffleTrain ==
    /\ spc = "augmented"
    /\ \E shuffle \in Permutations_of(1..Len(X_train)) :
        /\ X_train' = take(X_train, shuffle)
        /\ y_train' = take(y_train, shuffle)
    /\ spc' = "gathered"
    /\ UNCHANGED <<args, images, labels, X_val, y_val, X_test, y_test>>
    /\ UNCHANGED colorVars
    /\ UNCHANGED flattenVars
    /\ UNCHANGED downloadVars

\* lines 148-152: every pixel is divided by 255.0, the six arrays returned
SplitReturn ==
    /\ spc = "gathered"
    /\ X_train' = [i \in 1..Len(X_train) |-> [X_train[i] EXCEPT !.scaled = TRUE]]
    /\ X_val' = [i \in 1..Len(X_val) |-> [X_val[i] EXCEPT !.scaled = TRUE]]
    /\ X_test' = [i \in 1..Len(X_test) |-> [X_test[i] EXCEPT !.scaled = TRUE]]
    /\ spc' = "done"
    /\ UNCHANGED <<args, images, labels, y_train, y_val, y_test>>
    /\ UNCHANGED colorVars
    /\ UNCHANGED flattenVars
    /\ UNCHANGED downloadVars

NextSplit ==
    \/ SplitShuffle
    \/ SplitSplit
    \/ SplitAugment
    \/ SplitShuffleTrain
    \/ SplitReturn

SpecSplit == InitSplit /\ [][NextSplit]_vars

(***************************************************************************)
(* download_unzip_kaggle_data.  A directory is the sequence of names from  *)
(* the file system root.  The entry 'data' of the starting directory is    *)
(* absent ("none"), a directory ("dir"), a directory that may not be       *)
(* entered ("noenter"), a regular file ("file") or a symbolic link to the  *)
(* directory LinkTarget ("link").                                          *)
(***************************************************************************)
StartDirs == { <<>>, <<"home">>, <<"home", "proj">> }

LinkTarget == <<"mnt", "kaggle">>

Environments ==
    [ data : {"none", "dir", "noenter", "file", "link"},
      writable : BOOLEAN,                       \* may 'data' be created
      kaggle : {"ok", "nonzero", "missing"},    \* the kaggle command
      zip : BOOLEAN,                            \* the download left the zip file
      unzip : {"ok", "fail"} ]                  \* the unzip command

\* os.chdir('..'): the parent directory; the root is its own parent
parent_dir(d) == IF d = <<>> THEN <<>> ELSE SubSeq(d, 1, Len(d) - 1)

InitDownload ==
    /\ palette = <<>>
    /\ ColorIdle
    /\ FlattenIdle
    /\ SplitIdle
    /\ dpc = "makedirs"
    /\ cwd \in StartDirs
    /\ cwd0 = cwd
    /\ env \in Environments

\* line 154: os.makedirs('data', exist_ok=True) creates the directory, accepts
\* an existing directory, and raises for a regular file or when the
\* directory cannot be created
DownloadMakedirs ==
    /\ dpc = "makedirs"
    /\ IF env.data = "file" \/ (env.data = "none" /\ ~env.writable)
       THEN dpc' = "except" /\ UNCHANGED env
       ELSE /\ dpc' = "chdir"
            /\ env' = IF env.data = "none" THEN [env EXCEPT !.data = "dir"] ELSE env
    /\ UNCHANGED <<cwd, cwd0>>
    /\ UNCHANGED colorVars
    /\ UNCHANGED flattenVars
    /\ UNCHANGED splitVars

\* line 155: os.chdir('data')
DownloadChdir ==
    /\ dpc = "chdir"
    /\ IF env.data = "noenter"
       THEN dpc' = "except" /\ UNCHANGED cwd
       ELSE /\ cwd' = IF env.data = "link" THEN LinkTarget ELSE Append(cwd, "data")
            /\ dpc' = "kaggle"
    /\ UNCHANGED <<cwd0, env>>
    /\ UNCHANGED colorVars
    /\ UNCHANGED flattenVars
    /\ UNCHANGED splitVars

\* lines 158-162: subprocess.run(..., check=True) raises when the command is
\* missing or ends with a status other than 0, so the test of line 161 never
\* finds a failure
DownloadKaggle ==
    /\ dpc = "kaggle"
    /\ dpc' = IF env.kaggle = "ok" THEN "unzip" ELSE "except"
    /\ UNCHANGED <<cwd, cwd0, env>>
    /\ UNCHANGED colorVars
    /\ UNCHANGED flattenVars
    /\ UNCHANGED splitVars

\* lines 165-172: a missing zip file raises FileNotFoundError, a failing
\* unzip raises CalledProcessError, otherwise the zip file is removed
DownloadUnzip ==
    /\ dpc = "unzip"
    /\ IF env.zip /\ env.unzip = "ok"
       THEN dpc' = "finally" /\ env' = [env EXCEPT !.zip = FALSE]
       ELSE dpc' = "except" /\ UNCHANGED env
    /\ UNCHANGED <<cwd, cwd0>>
    /\ UNCHANGED colorVars
    /\ UNCHANGED flattenVars
    /\ UNCHANGED splitVars

\* lines 180-181: the exception is printed
DownloadExcept ==
    /\ dpc = "except"
    /\ dpc' = "finally"
    /\ UNCHANGED <<cwd, cwd0, env>>
    /\ UNCHANGED colorVars
    /\ UNCHANGED flattenVars
    /\ UNCHANGED splitVars

\* lines 183-185: os.chdir('..'), then the function returns
DownloadFinally ==
    /\ dpc = "finally"
    /\ cwd' = parent_dir(cwd)
    /\ dpc' = "done"
    /\ UNCHANGED <<cwd0, env>>
    /\ UNCHANGED colorVars
    /\ UNCHANGED flattenVars
    /\ UNCHANGED splitVars

NextDownload ==
    \/ DownloadMakedirs
    \/ DownloadChdir
    \/ DownloadKaggle
    \/ DownloadUnzip
    \/ DownloadExcept
    \/ DownloadFinally

SpecDownload == InitDownload /\ [][NextDownload]_vars

Init ==
    /\ palette \in Palettes
    /\ ColorIdle
    /\ FlattenIdle
    /\ SplitIdle
    /\ DownloadIdle

\* variant: the lookup moves the entry it found to the front of the dict
CallValue_move_to_front(t, q) ==
    /\ pc[t] = "idle"
    /\ LET r == get_closest_name_for_rgb_value(palette, q)
       IN  /\ result' = [result EXCEPT ![t] =
                           [kind |-> r.kind, name |-> r.name, names |-> <<>>, dists |-> r.dists]]
           /\ palette' = SelectSeq(palette, LAMBDA e : e.name = r.name)
                            \o SelectSeq(palette, LAMBDA e : e.name # r.name)
    /\ call' = [call EXCEPT ![t] = [fn |-> "value", q |-> q, xs |-> <<>>]]
    /\ pc' = [pc EXCEPT ![t] = "returned"]
    /\ UNCHANGED names
    /\ UNCHANGED flattenVars
    /\ UNCHANGED splitVars
    /\ UNCHANGED downloadVars

\* a caller calls get_closest_name_for_rgb_value(q)
CallValue(t, q) ==
    /\ pc[t] = "idle"
    /\ LET r == get_closest_name_for_rgb_value(palette, q)
       IN  result' = [result EXCEPT ![t] =
                        [kind |-> r.kind, name |-> r.name, names |-> <<>>, dists |-> r.dists]]
    /\ call' = [call EXCEPT ![t] = [fn |-> "value", q |-> q, xs |-> <<>>]]
    /\ pc' = [pc EXCEPT ![t] = "returned"]
    /\ UNCHANGED <<palette, names>>
    /\ UNCHANGED flattenVars
    /\ UNCHANGED splitVars
    /\ UNCHANGED downloadVars

\* a caller calls get_closest_name_for_rgb(xs): names = []
CallBatch(t, xs) ==
    /\ pc[t] = "idle"
    /\ call' = [call EXCEPT ![t] = [fn |-> "batch", q |-> <<>>, xs |-> xs]]
    /\ names' = [names EXCEPT ![t] = <<>>]
    /\ result' = [result EXCEPT ![t] = NoResult]
    /\ pc' = [pc EXCEPT ![t] = "batch"]
    /\ UNCHANGED palette
    /\ UNCHANGED flattenVars
    /\ UNCHANGED splitVars
    /\ UNCHANGED downloadVars

\* variant: the name is put at the front of the list
BatchStep_prepend(t) ==
    /\ pc[t] = "batch"
    /\ Len(names[t]) < Len(call[t].xs)
    /\ LET rgb_value == call[t].xs[Len(names[t]) + 1]
           r == get_closest_name_for_rgb_value(palette, rgb_value)
       IN  IF r.kind = "return"
           THEN /\ names' = [names EXCEPT ![t] = <<r.name>> \o names[t]]
                /\ UNCHANGED <<pc, result>>
           ELSE /\ result' = [result EXCEPT ![t] =
                                [kind |-> r.kind, name |-> "", names |-> <<>>, dists |-> r.dists]]
                /\ pc' = [pc EXCEPT ![t] = "returned"]
                /\ UNCHANGED names
    /\ UNCHANGED <<palette, call>>
    /\ UNCHANGED flattenVars
    /\ UNCHANGED splitVars
    /\ UNCHANGED downloadVars

\* one iteration of the loop of lines 174-175; an exception of the single
\* lookup leaves the function
BatchStep(t) ==
    /\ pc[t] = "batch"
    /\ Len(names[t]) < Len(call[t].xs)
    /\ LET rgb_value == call[t].xs[Len(names[t]) + 1]
           r == get_closest_name_for_rgb_value(palette, rgb_value)
       IN  IF r.kind = "return"
           THEN /\ names' = [names EXCEPT ![t] = Append(names[t], r.name)]
                /\ UNCHANGED <<pc, result>>
           ELSE /\ result' = [result EXCEPT ![t] =
                                [kind |-> r.kind, name |-> "", names |-> <<>>, dists |-> r.dists]]
                /\ pc' = [pc EXCEPT ![t] = "returned"]
                /\ UNCHANGED names
    /\ UNCHANGED <<palette, call>>
    /\ UNCHANGED flattenVars
    /\ UNCHANGED splitVars
    /\ UNCHANGED downloadVars

\* line 176: return names
BatchReturn(t) ==
    /\ pc[t] = "batch"
    /\ Len(names[t]) = Len(call[t].xs)
    /\ result' = [result EXCEPT ![t] =
                    [kind |-> "return", name |-> "", names |-> names[t], dists |-> 0]]
    /\ pc' = [pc EXCEPT ![t] = "returned"]
    /\ UNCHANGED <<palette, call, names>>
    /\ UNCHANGED flattenVars
    /\ UNCHANGED splitVars
    /\ UNCHANGED downloadVars

\* the caller drops the result and is ready for its next call
NextCall(t) ==
    /\ pc[t] = "returned"
    /\ pc' = [pc EXCEPT ![t] = "idle"]
    /\ call' = [call EXCEPT ![t] = NoCall]
    /\ names' = [names EXCEPT ![t] = <<>>]
    /\ result' = [result EXCEPT ![t] = NoResult]
    /\ UNCHANGED palette
    /\ UNCHANGED flattenVars
    /\ UNCHANGED splitVars
    /\ UNCHANGED downloadVars

Next ==
    \/ \E t \in Threads, q \in Queries : CallValue(t, q)
    \/ \E t \in Threads, xs \in Batches : CallBatch(t, xs)
    \/ \E t \in Threads : BatchStep(t)
    \/ \E t \in Threads : BatchReturn(t)
    \/ \E t \in Threads : NextCall(t)

Spec == Init /\ [][Next]_vars

(***************************************************************************)
(* Properties of the color-name lookup, checked under Spec.                *)
(***************************************************************************)
\* squared Euclidean distance between a reference color and an int triple
SqDist(c, q) ==
    (c[1] - q[1].v) * (c[1] - q[1].v) + (c[2] - q[2].v) * (c[2] - q[2].v)
        + (c[3] - q[3].v) * (c[3] - q[3].v)

Returned(t, fn) == pc[t] = "returned" /\ call[t].fn = fn

C2_FirstOfTiesWins ==
    \A t \in Threads :
        (Returned(t, "value") /\ call[t].q \in TripleQueries /\ palette # <<>>) =>
            /\ \E i \in 1..Len(palette) :
                /\ palette[i].name = result[t].name
                /\ \A j \in 1..(i - 1) :
                    SqDist(palette[j].rgb, call[t].q) > SqDist(palette[i].rgb, call[t].q)
            /\ (palette = COLOR_NAME_DICT /\ call[t].q = T3(255, 0, 255))
                    => result[t].name = "Fuchsia"
            /\ (palette = COLOR_NAME_DICT /\ call[t].q = T3(0, 255, 255))
                    => result[t].name = "Aqua"

C2_Witness ==
    /\ \E t \in Threads :
        /\ Returned(t, "value")
        /\ palette = COLOR_NAME_DICT
        /\ call[t].q = T3(255, 0, 255)
        /\ result[t].name = "Fuchsia"
    /\ \E i, j \in 1..Len(palette) :
        i < j /\ palette[i].name = "Fuchsia" /\ palette[j].name = "Magenta"
              /\ palette[i].rgb = palette[j].rgb

\* C3: for a sequence xs of queries of three numbers the batch lookup
\* returns a sequence as long as xs whose i-th element is the name the
\* single lookup gives for xs[i]; the empty sequence gives the empty one.
C3_BatchCorrespondence ==
    \A t \in Threads :
        (Returned(t, "batch") /\ \A i \in 1..Len(call[t].xs) : call[t].xs[i] \in TripleQueries) =>
            /\ result[t].kind = "return"
            /\ Len(result[t].names) = Len(call[t].xs)
            /\ \A i \in 1..Len(call[t].xs) :
                result[t].names[i] = get_closest_name_for_rgb_value(palette, call[t].xs[i]).name

C3_Witness ==
    \E t \in Threads :
        /\ Returned(t, "batch")
        /\ palette = COLOR_NAME_DICT
        /\ call[t].xs = <<T3(1, 0, 0), T3(255, 0, 255)>>
        /\ result[t].names = <<"Black", "Fuchsia">>

\* C4 as stated: with an empty palette every single lookup fails with
\* EmptyPaletteError and returns no placeholder name.
C4_EmptyPaletteRaises ==
    \A t \in Threads :
        (Returned(t, "value") /\ palette = <<>>) =>
            result[t].kind = "EmptyPaletteError"

\* C4 amended: with an empty palette every single lookup, whatever its
\* query, raises nothing and returns the placeholder "No Color Found"
\* without computing a distance.
C4_EmptyPaletteSentinel ==
    \A t \in Threads :
        (Returned(t, "value") /\ palette = <<>>) =>
            /\ result[t].kind = "return"
            /\ result[t].name = "No Color Found"
            /\ result[t].dists = 0

C4_Witness ==
    \E t \in Threads :
        /\ Returned(t, "value")
        /\ palette = <<>>
        /\ call[t].q = T3(0, 0, 0)
        /\ result[t].name = "No Color Found"

\* the first of the positions 1..3 of q that is past its end or holds no
\* number; 0 when the first three components are numbers
FirstBad(q) ==
    LET bad == { k \in 1..3 : k > Len(q) \/ q[k].t # "int" }
    IN  IF bad = {} THEN 0 ELSE CHOOSE k \in bad : \A m \in bad : k <= m

\* C5 as stated: a query with a missing or non-numeric component, or with
\* fewer or more than 3 components, makes the single lookup raise
\* InvalidQueryError before any distance is computed.
C5_InvalidQueryRaises ==
    \A t \in Threads :
        (Returned(t, "value") /\ call[t].q \in MalformedQueries) =>
            /\ result[t].kind = "InvalidQueryError"
            /\ result[t].dists = 0

\* C5 amended: with a non-empty palette, a query whose first three
\* positions hold a non-number or run past its end makes the single lookup
\* raise (IndexError for the position past the end, TypeError for the
\* non-number, whichever position comes first) before the distance to any
\* entry is computed, and no name is returned; a query of more than three
\* components whose first three are numbers is not refused and is resolved
\* on its first three components; with an empty palette no query is refused.
C5_MalformedQueryOutcome ==
    \A t \in Threads :
        (Returned(t, "value") /\ call[t].q \in MalformedQueries) =>
            LET q == call[t].q
                k == FirstBad(q)
            IN  IF palette = <<>>
                THEN result[t].kind = "return"
                ELSE IF k # 0
                THEN /\ result[t].kind = (IF k > Len(q) THEN "IndexError" ELSE "TypeError")
                     /\ result[t].name = ""
                     /\ result[t].dists = 0
                ELSE /\ result[t].kind = "return"
                     /\ result[t].name =
                            get_closest_name_for_rgb_value(palette, SubSeq(q, 1, 3)).name

C5_Witness ==
    /\ palette = COLOR_NAME_DICT
    /\ \E t \in Threads :
        /\ Returned(t, "value")
        /\ call[t].q = <<I(1), I(0)>>
        /\ result[t].kind = "IndexError"
    /\ \E t \in Threads :
        /\ Returned(t, "value")
        /\ call[t].q = <<I(255), I(0), I(255), NaN_str>>
        /\ result[t].name = "Fuchsia"

\* C6: on the shipped palette (0,0,0) gives "Black", (255,255,255) gives
\* "White", (255,0,0) gives "Red" and the off-exact (1,1,1) gives "Black".
C6_ShippedPaletteAnswers ==
    \A t \in Threads :
        (Returned(t, "value") /\ palette = COLOR_NAME_DICT) =>
            /\ call[t].q = T3(0, 0, 0) => result[t].name = "Black"
            /\ call[t].q = T3(255, 255, 255) => result[t].name = "White"
            /\ call[t].q = T3(255, 0, 0) => result[t].name = "Red"
            /\ call[t].q = T3(1, 1, 1) => result[t].name = "Black"

C6_Witness ==
    /\ palette = COLOR_NAME_DICT
    /\ \E t \in Threads :
        Returned(t, "value") /\ call[t].q = T3(1, 1, 1) /\ result[t].name = "Black"
    /\ \E t \in Threads :
        Returned(t, "value") /\ call[t].q = T3(255, 255, 255) /\ result[t].name = "White"

\* the answers a caller holds: the outcome of its finished single lookup,
\* and the names its batch lookup has collected so far
Answers(t) ==
    (IF Returned(t, "value")
     THEN { <<call[t].q, result[t].kind, result[t].name>> } ELSE {})
    \cup
    (IF call[t].fn = "batch"
     THEN { <<call[t].xs[i], "return", names[t][i]>> : i \in 1..Len(names[t]) } ELSE {})

AllAnswers == UNION { Answers(t) : t \in Threads }

\* C7: no step of any single or batch lookup, in any interleaving of the
\* callers, changes the palette, and the answers to one query are the same
\* whichever caller asked and whatever calls ran before or meanwhile.
C7_PaletteReadOnlyAndDeterministic ==
    /\ [][palette' = palette]_vars
    /\ [](\A a, b \in AllAnswers : a[1] = b[1] => a = b)

C7_Witness ==
    \E t, u \in Threads :
        /\ t # u
        /\ palette = <<E("B", 2, 0, 0), E("A", 0, 0, 0)>>
        /\ Returned(t, "value") /\ call[t].q = T3(1, 0, 0) /\ result[t].name = "B"
        /\ Returned(u, "batch") /\ call[u].xs = <<T3(255, 0, 255), T3(1, 0, 0)>>
        /\ result[u].names = <<"B", "B">>

\* C8: the palette's names are pairwise different and every value has
\* exactly 3 components, each an integer in 0..255.
C8_PaletteWellFormed ==
    /\ \A i, j \in 1..Len(palette) : palette[i].name = palette[j].name => i = j
    /\ \A i \in 1..Len(palette) :
        /\ Len(palette[i].rgb) = 3
        /\ \A k \in 1..3 : palette[i].rgb[k] \in 0..255

C8_Witness ==
    /\ palette = COLOR_NAME_DICT
    /\ Len(palette) = 140
    /\ \A t \in Threads : pc[t] = "returned"

(***************************************************************************)
(* Property of flatten_data_folder, checked under SpecFlatten.             *)
(***************************************************************************)
\* C9: when flatten_data_folder has returned, every file that was in a
\* subfolder of the dataset folder when the call was made is in the dataset
\* folder under its name (also when two subfolders held files of one name,
\* or the dataset folder already had an entry of that name), and the
\* dataset folder holds no subfolder.
C9_AllFilesMovedToRoot ==
    fpc = "done" =>
        /\ \A d, f \in Names :
            (root0[d].kind = "dir" /\ root0[d].entries[f] = "file") => root[f] = File(d, f)
        /\ \A n \in Names : root[n].kind # "dir"

(***************************************************************************)
(* Property of data_split_and_augment, checked under SpecSplit.            *)
(***************************************************************************)
\* the input images found in the array X
Sources(X) == { X[i].src : i \in 1..Len(X) }

\* every image of X has the label its input image was passed with
Paired(X, y) ==
    /\ Len(y) = Len(X)
    /\ \A i \in 1..Len(X) : y[i] = args.labels[X[i].src]

C11_WorkingDirectoryReset ==
    dpc = "done" => cwd = cwd0

====
